---- MODULE Spec2Model ----
(***************************************************************************)
(* A model of gen_wordlist.py (jbeskow/signflash): the wordlist generator  *)
(* of the SignFlash flashcard application.                                 *)
(*                                                                         *)
(* Text is modelled as a sequence of one-character strings, so that case   *)
(* folding, trimming, regular-expression matching and filename ordering    *)
(* are computed the way the Python code computes them.                     *)
(***************************************************************************)
EXTENDS Integers, Sequences, FiniteSets, TLC

VARIABLES
    pc,             \* "ready" before the run of the operation, "done" after it
    \* ---- auto_bracket(word, phrase_text)
    word,           \* the base word (lower-cased by main, line 268)
    phrase_text,    \* the phrase handed to auto_bracket
    bracketed,      \* what auto_bracket returned
    \* ---- main: the run's inputs
    args,           \* the parsed command line (argparse namespace)
    sign_rows,      \* the catalog, as load_sign_data returns it
    wordfile_lines, \* the lines of the --wordfile file
    freq_file,      \* the frequency corpus: whether it exists, and its lines
    remote,         \* the video filenames the remote host answers 200 for
    ai_service,     \* the annotation service: not set up, failing, or how it answers
    \* ---- main: the run's locals, as they stand when the run ends
    word_lookup,    \* dict word -> row, in insertion order
    candidates,     \* the candidate words
    entries,        \* the word entries {word, video}
    phrase_entries, \* the phrase entries {word, phrase, video}
    chunks,         \* the chunks of entries (one chunk when the output is not split)
    \* ---- what the run leaves behind
    files,          \* the output directory: file name -> content
    exit_code,      \* the exit status of the run
    output,         \* the lines the enumerate-categories query prints
    runs,           \* the number of runs so far
    \* ---- gen_phrases.py: its two input files and the file it writes
    wordlist_js,    \* wordlist.js: the entries { word, video } written in it
    phrases_csv,    \* phrases.csv: the rows {word, phrase, movie}
    phrases_js      \* phrases.js: the phrases {word, phrase, video} written

bracketVars == <<word, phrase_text, bracketed>>
inputVars == <<args, sign_rows, wordfile_lines, freq_file, remote, ai_service>>
localVars == <<word_lookup, candidates, entries, phrase_entries, chunks>>

outVars == <<files, exit_code, output, runs>>
scriptVars == <<wordlist_js, phrases_csv, phrases_js>>

vars == <<pc, bracketVars, inputVars, localVars, outVars, scriptVars>>

(***************************************************************************)
(* Characters and strings                                                  *)
(***************************************************************************)

\* The letters of the ASCII alphabet, in alphabetical order.
UpperLetters ==
    <<"A", "B", "C", "D", "E", "F", "G", "H", "I", "J", "K", "L", "M",
      "N", "O", "P", "Q", "R", "S", "T", "U", "V", "W", "X", "Y", "Z">>

LowerLetters ==
    <<"a", "b", "c", "d", "e", "f", "g", "h", "i", "j", "k", "l", "m",
      "n", "o", "p", "q", "r", "s", "t", "u", "v", "w", "x", "y", "z">>

\* str.lower() on one character: an upper-case letter becomes the lower-case
\* letter of the same place, every other character stays.
LowerChar(c) ==
    IF \E i \in 1..Len(UpperLetters) : UpperLetters[i] = c
    THEN LowerLetters[CHOOSE i \in 1..Len(UpperLetters) : UpperLetters[i] = c]
    ELSE c

\* str.lower()
Lower(s) == [i \in 1..Len(s) |-> LowerChar(s[i])]

\* The regular-expression class \w: letters, digits and the underscore.
IsWordChar(c) ==
    \/ \E i \in 1..Len(UpperLetters) : c = UpperLetters[i] \/ c = LowerLetters[i]
    \/ c \in {"0", "1", "2", "3", "4", "5", "6", "7", "8", "9", "_"}

\* The regular-expression class \s, and what str.strip() removes.
IsSpace(c) == c \in {" ", "\t", "\n"}

\* s[a..b] as a sequence (empty when a > b).
Slice(s, a, b) == [i \in 1..(IF b >= a THEN b - a + 1 ELSE 0) |-> s[a + i - 1]]

\* The sequences of at most n elements of a set.
RECURSIVE StringsUpTo(_, _)
StringsUpTo(alphabet, n) ==
    IF n = 0 THEN {<<>>}
    ELSE LET shorter == StringsUpTo(alphabet, n - 1) IN
         shorter \cup {Append(s, c) : s \in shorter, c \in alphabet}

(***************************************************************************)
(* auto_bracket                                                            *)
(***************************************************************************)

\* re.sub(pattern, "[" group 1 "]", phrase_text, flags=re.IGNORECASE), the pattern
\* being: not after "[", not after a word character, then group 1 (the escaped
\* word followed by a greedy run of word characters), then not before "]".

\* The literal re.escape(word) matches text at position i, ignoring case.
LiteralAt(w, s, i) ==
    /\ i + Len(w) - 1 <= Len(s)
    /\ \A k \in 1..Len(w) : LowerChar(s[i + k - 1]) = LowerChar(w[k])

\* The two lookbehinds (?<!\[)(?<!\w) at position i.
LookbehindOk(s, i) ==
    i = 1 \/ (s[i - 1] # "[" /\ ~IsWordChar(s[i - 1]))

\* The lookahead (?!\]) after a match that ends at position e.
LookaheadOk(s, e) == e = Len(s) \/ s[e + 1] # "]"

\* The ends e of the candidate matches WORD\w* that start at i: the literal, then
\* any number of word characters, then the lookahead.
MatchEnds(w, s, i) ==
    {e \in (i + Len(w) - 1)..Len(s) :
        /\ \A k \in (i + Len(w))..e : IsWordChar(s[k])
        /\ LookaheadOk(s, e)}

\* \w* is greedy: the engine tries the longest run first and backtracks to a
\* shorter one when the lookahead fails. 0 when nothing matches at i.
MatchEnd(w, s, i) ==
    IF LookbehindOk(s, i) /\ LiteralAt(w, s, i) /\ MatchEnds(w, s, i) # {}
    THEN CHOOSE e \in MatchEnds(w, s, i) : \A f \in MatchEnds(w, s, i) : e >= f
    ELSE 0

\* re.sub scans left to right; a match is replaced by "[" match "]" and the scan
\* resumes after it, an unmatched character is copied.
RECURSIVE SubFrom(_, _, _)
SubFrom(w, s, i) ==
    IF i > Len(s) THEN <<>>
    ELSE LET e == MatchEnd(w, s, i) IN
         IF e # 0
         THEN <<"[">> \o Slice(s, i, e) \o <<"]">> \o SubFrom(w, s, e + 1)
         ELSE <<s[i]>> \o SubFrom(w, s, i + 1)

auto_bracket(w, s) == SubFrom(w, s, 1)

(***************************************************************************)
(* String helpers used by main                                             *)
(***************************************************************************)

\* str.strip(): leading and trailing whitespace removed.
Strip(s) ==
    LET solid == {i \in 1..Len(s) : ~IsSpace(s[i])} IN
    IF solid = {} THEN <<>>
    ELSE Slice(s, CHOOSE i \in solid : \A j \in solid : i <= j,
                  CHOOSE i \in solid : \A j \in solid : i >= j)

IsDigit(c) == c \in {"0", "1", "2", "3", "4", "5", "6", "7", "8", "9"}

\* The length of the longest run of characters of a class that starts at i.
RECURSIVE RunOfSpace(_, _)
RunOfSpace(s, i) == IF i <= Len(s) /\ IsSpace(s[i]) THEN 1 + RunOfSpace(s, i + 1) ELSE 0

RECURSIVE RunOfDigits(_, _)
RunOfDigits(s, i) == IF i <= Len(s) /\ IsDigit(s[i]) THEN 1 + RunOfDigits(s, i + 1) ELSE 0

\* re.sub(r"^alt\s+\d+\.\s*", "", phrase_text): "alt", at least one whitespace, at
\* least one digit, a dot and any whitespace, at the start only, case-sensitive.
StripAltPrefix(s) ==
    LET sp   == RunOfSpace(s, 4)
        dg   == RunOfDigits(s, 4 + sp)
        dot  == 4 + sp + dg
        tail == RunOfSpace(s, dot + 1)
    IN  IF /\ Len(s) >= 3 /\ s[1] = "a" /\ s[2] = "l" /\ s[3] = "t"
           /\ sp >= 1 /\ dg >= 1
           /\ dot <= Len(s) /\ s[dot] = "."
        THEN Slice(s, dot + tail + 1, Len(s))
        ELSE s

\* re.sub(r"\s+", " ", phrase_text): every run of whitespace becomes one space.
RECURSIVE CollapseFrom(_, _)
CollapseFrom(s, i) ==
    IF i > Len(s) THEN <<>>
    ELSE IF IsSpace(s[i])
         THEN <<" ">> \o CollapseFrom(s, i + RunOfSpace(s, i))
         ELSE <<s[i]>> \o CollapseFrom(s, i + 1)

CollapseWhitespace(s) == CollapseFrom(s, 1)

\* extract_video_filename: what follows the last "/", or the whole path.
extract_video_filename(movie_path) ==
    LET slashes == {i \in 1..Len(movie_path) : movie_path[i] = "/"} IN
    IF slashes = {} THEN movie_path
    ELSE Slice(movie_path, (CHOOSE i \in slashes : \A j \in slashes : i >= j) + 1,
               Len(movie_path))

\* str(n) for 0 <= n < 100.
Digit(d) == CASE d = 0 -> "0" [] d = 1 -> "1" [] d = 2 -> "2" [] d = 3 -> "3"
              [] d = 4 -> "4" [] d = 5 -> "5" [] d = 6 -> "6" [] d = 7 -> "7"
              [] d = 8 -> "8" [] d = 9 -> "9"

Str(n) == IF n < 10 THEN <<Digit(n)>> ELSE <<Digit(n \div 10), Digit(n % 10)>>

(***************************************************************************)
(* main: the word lookup                                                   *)
(***************************************************************************)

\* args.split when the option was not given: None and 0 are both false in
\* "args.split and ..." (line 395), and the model writes 0 for both.
NoSplit == 0

\* A phrases column: the list ast.literal_eval yields, or one that does not parse
\* (or parses to something that is no list).
Column(list) == [parses |-> TRUE, list |-> list]
Malformed == [parses |-> FALSE, list |-> <<>>]

\* --maxlength when the option is not given (line 193).
DEFAULT_MAXLENGTH == 100

\* The command line without options: category is the --category text (empty when
\* not given), wordfile says whether --wordfile was given.
\* csv_exists is os.path.exists(csv_path) (line 217).
NoArgs == [category |-> <<>>, wordfile |-> FALSE, maxlength |-> DEFAULT_MAXLENGTH,
           split |-> NoSplit, phrases |-> FALSE, no_verify |-> FALSE,
           ai_bracket |-> FALSE, id |-> <<>>, name |-> <<>>,
           list_categories |-> FALSE, rebuild |-> FALSE, csv_exists |-> TRUE]

\* The frequency corpus when the file does not exist.
NoFile == [exists |-> FALSE, lines |-> <<>>]

\* s.startswith(prefix)
StartsWith(s, prefix) ==
    Len(s) >= Len(prefix) /\ \A i \in 1..Len(prefix) : s[i] = prefix[i]

\* s.endswith(suffix)
EndsWith(s, suffix) ==
    /\ Len(s) >= Len(suffix)
    /\ \A i \in 1..Len(suffix) : s[Len(s) - Len(suffix) + i] = suffix[i]

\* sub in s
Contains(s, sub) ==
    \E i \in 1..(Len(s) - Len(sub) + 1) : \A k \in 1..Len(sub) : s[i + k - 1] = sub[k]

\* s.split(","), from position i on: the parts between the commas.
RECURSIVE SplitFrom(_, _)
SplitFrom(s, i) ==
    LET commas == {k \in i..Len(s) : s[k] = ","} IN
    IF commas = {} THEN <<Slice(s, i, Len(s))>>
    ELSE LET k == CHOOSE c \in commas : \A d \in commas : c <= d IN
         <<Slice(s, i, k - 1)>> \o SplitFrom(s, k + 1)

\* Lines 258-260: the set of requested slugs, trimmed and lower-cased.
CategorySlugs(category) ==
    IF category = <<>> THEN {}
    ELSE LET parts == SplitFrom(category, 1) IN
         {Lower(Strip(parts[i])) : i \in {k \in 1..Len(parts) : Strip(parts[k]) # <<>>}}

BOK_SLUG == <<"b", "o", "k", "s", "t", "a", "v", "e", "r", "i", "n", "g">>

BokPrefix == <<"B", "o", "k", "s", "t", "a", "v", "e", "r", "a", "s", ":">>

\* is_bokstavering_row
is_bokstavering_row(row) ==
    StartsWith(row.description, BokPrefix) /\ ~Contains(row.description, <<"/", "/">>)

\* Line 274: the row matches an active filter.
Matches(row, category_slugs) ==
    LET has_bok     == BOK_SLUG \in category_slugs
        other_slugs == category_slugs \ {BOK_SLUG}
        slug        == Lower(Strip(row.category_slug))
    IN  \/ (has_bok /\ is_bokstavering_row(row))
        \/ (other_slugs # {} /\ slug \in other_slugs)

\* A catalog row (a csv.DictReader row).
RowOf(w, movie, label, slug, desc, phrases) ==
    [word |-> w, movie |-> movie, category |-> label, category_slug |-> slug,
     description |-> desc, phrases |-> phrases]

\* The keys of the dict, in insertion order.
Keys(lookup) == [i \in 1..Len(lookup) |-> lookup[i].word]

HasKey(lookup, w) == \E i \in 1..Len(lookup) : lookup[i].word = w

\* word_lookup[w]
Get(lookup, w) == lookup[CHOOSE i \in 1..Len(lookup) : lookup[i].word = w].row

\* Lines 271-276: the row is skipped.
SkippedMutant(row, category_slugs) ==
    category_slugs # {} /\ ~Matches(row, category_slugs)

Skipped(row, category_slugs) ==
    \/ Strip(row.movie) = <<>>
    \/ (category_slugs # {} /\ ~Matches(row, category_slugs))

\* Lines 266-278: the loop over the catalog rows, from the i-th on.
RECURSIVE LookupFrom(_, _, _, _)
LookupFrom(rows, i, category_slugs, lookup) ==
    IF i > Len(rows) THEN lookup
    ELSE LET w == Lower(Strip(rows[i].word)) IN
         IF Skipped(rows[i], category_slugs) \/ HasKey(lookup, w)
         THEN LookupFrom(rows, i + 1, category_slugs, lookup)
         ELSE LookupFrom(rows, i + 1, category_slugs,
                         Append(lookup, [word |-> w, row |-> rows[i]]))

WordLookup(rows, category) == LookupFrom(rows, 1, CategorySlugs(category), <<>>)

(***************************************************************************)
(* main: candidates, ranking, trimming, verification (lines 294-350)       *)
(***************************************************************************)

\* The k-th smallest element of a set of numbers.
KthOf(S, k) == CHOOSE i \in S : Cardinality({j \in S : j <= i}) = k

\* The elements of s at the places of the set I, in order (a list comprehension
\* with a condition).
Pick(s, I) == [k \in 1..Cardinality(I) |-> s[KthOf(I, k)]]

\* Line 297: the non-blank lines, trimmed and lower-cased.
InputWords(lines) ==
    LET solid == Pick(lines, {i \in 1..Len(lines) : Strip(lines[i]) # <<>>}) IN
    [i \in 1..Len(solid) |-> Lower(Strip(solid[i]))]

\* Lines 295-309: the candidate list before ranking.
CandidateList(a, lines, lookup) ==
    IF a.wordfile
    THEN LET input_words == InputWords(lines) IN
         Pick(input_words, {i \in 1..Len(input_words) : HasKey(lookup, input_words[i])})
    ELSE Keys(lookup)

MIN_FIELDS == 5

\* load_frequency, from the i-th line on: the words in order of first appearance;
\* the rank of a word is its place in this list, counted from 0.
RECURSIVE FrequencyFrom(_, _, _)
FrequencyFrom(lines, i, freq) ==
    IF i > Len(lines) THEN freq
    ELSE LET w == Lower(Strip(lines[i].first)) IN
         IF lines[i].fields >= MIN_FIELDS /\ w # <<>>
            /\ ~\E k \in 1..Len(freq) : freq[k] = w
         THEN FrequencyFrom(lines, i + 1, Append(freq, w))
         ELSE FrequencyFrom(lines, i + 1, freq)

load_frequency(lines) == FrequencyFrom(lines, 1, <<>>)

\* Lines 313-319: the empty table when the file does not exist.
Frequency(file) == IF file.exists THEN load_frequency(file.lines) ELSE <<>>

\* freq.get(w, max_rank) with max_rank = len(freq)
Rank(freq, w) ==
    IF \E k \in 1..Len(freq) : freq[k] = w
    THEN (CHOOSE k \in 1..Len(freq) : freq[k] = w) - 1
    ELSE Len(freq)

\* list.sort(key=...) is stable: an element goes after every element already
\* placed whose key is not greater.
InsertByRankMutant(sorted, w, freq) ==
    LET smaller == {k \in 1..Len(sorted) : Rank(freq, sorted[k]) < Rank(freq, w)}
        n       == Cardinality(smaller)
    IN  Slice(sorted, 1, n) \o <<w>> \o Slice(sorted, n + 1, Len(sorted))

InsertByRank(sorted, w, freq) ==
    LET before == {k \in 1..Len(sorted) : Rank(freq, sorted[k]) <= Rank(freq, w)}
        n      == Cardinality(before)
    IN  Slice(sorted, 1, n) \o <<w>> \o Slice(sorted, n + 1, Len(sorted))

RECURSIVE SortFrom(_, _, _, _)
SortFrom(cands, i, freq, sorted) ==
    IF i > Len(cands) THEN sorted
    ELSE SortFrom(cands, i + 1, freq, InsertByRank(sorted, cands[i], freq))

SortByFreqMutant(cands, freq) == cands

\* Line 322: candidates.sort(key=lambda w: freq.get(w, max_rank))
SortByFreq(cands, freq) == SortFrom(cands, 1, freq, <<>>)

\* Lines 294-322.
RankedCandidates(a, lines, lookup, file) ==
    SortByFreq(CandidateList(a, lines, lookup), Frequency(file))

\* Lines 325-327: candidates[:args.maxlength]
Trim(cands, maxlength) ==
    IF Len(cands) > maxlength THEN Slice(cands, 1, maxlength) ELSE cands

TeckenSuffix == <<"-", "t", "e", "c", "k", "e", "n", ".", "m", "p", "4">>

ID_DIGITS == 5

\* check_video_url: the filename ends with "-", five digits and "-tecken.mp4", and
\* the host answers 200 for it.
check_video_url(filename, host) ==
    LET n == Len(filename) - Len(TeckenSuffix) IN
    /\ EndsWith(filename, TeckenSuffix)
    /\ n >= ID_DIGITS + 1
    /\ \A k \in (n - ID_DIGITS + 1)..n : IsDigit(filename[k])
    /\ filename[n - ID_DIGITS] = "-"
    /\ filename \in host

\* A video filename of the form the remote host serves.
Tecken(w, digit) == w \o <<"-", "0", "0", "0", "0", digit>> \o TeckenSuffix

MoviePath(filename) == <<"m", "/">> \o filename

\* Lines 334-350: the entries of the candidates whose video is there.
RECURSIVE EntriesFrom(_, _, _, _, _)
EntriesFrom(cands, i, lookup, a, host) ==
    IF i > Len(cands) THEN <<>>
    ELSE LET filename == extract_video_filename(Get(lookup, cands[i]).movie) IN
         (IF a.no_verify \/ check_video_url(filename, host)
          THEN << [word |-> cands[i], video |-> filename] >>
          ELSE <<>>)
         \o EntriesFrom(cands, i + 1, lookup, a, host)

BuildEntries(cands, lookup, a, host) == EntriesFrom(cands, 1, lookup, a, host)

(***************************************************************************)
(* main: phrase entries (lines 354-389)                                    *)
(***************************************************************************)

\* parse_phrases_column: the list the column holds, [] when it holds none.
parse_phrases_column(phrases_str) ==
    IF phrases_str.parses THEN phrases_str.list ELSE <<>>

\* The annotation service behind --ai-bracket, an input of the run. NoPackage: the
\* client cannot be set up (the import at line 249 fails). "raises": the request
\* fails. Otherwise the service answers, in one of these ways: the phrase with the
\* forms bracketed as the pattern would, the phrase as it is, or the bracketed
\* phrase in quotes with a trailing blank.
NoPackage == "missing"

AiAnswers == {"pattern", "echo", "quoted"}

\* Lines 246-253: ai_client, None unless --ai-bracket is given.
NoClient == [present |-> FALSE, answers |-> NoPackage]

AiClient(a, service) ==
    IF a.ai_bracket THEN [present |-> TRUE, answers |-> service] ELSE NoClient

\* message.content[0].text: what the service answers to the prompt.
AiAnswer(w, s, client) ==
    CASE client.answers = "pattern" -> auto_bracket(w, s)
      [] client.answers = "echo"    -> s
      [] client.answers = "quoted"  -> <<"\"">> \o auto_bracket(w, s) \o <<"\"", " ">>

\* str.strip('"'): leading and trailing double quotes removed.
StripQuotes(s) ==
    LET solid == {i \in 1..Len(s) : s[i] # "\""} IN
    IF solid = {} THEN <<>>
    ELSE Slice(s, CHOOSE i \in solid : \A j \in solid : i <= j,
                  CHOOSE i \in solid : \A j \in solid : i >= j)

\* ai_bracket: the answer, stripped of blanks and then of quotes.
ai_bracket(w, s, client) == StripQuotes(Strip(AiAnswer(w, s, client)))

\* Lines 361-379 for one raw phrase p of the word w: the entries it adds (none when
\* the phrase or its movie is blank, or the cleaned phrase is empty). The phrase is
\* bracketed by the service when there is a client (lines 372-375), by the pattern
\* otherwise (line 377).
PhraseEntryOf(w, p, client) ==
    LET text    == Strip(p.phrase)
        movie   == Strip(p.movie)
        cleaned == Strip(CollapseWhitespace(StripAltPrefix(text)))
    IN  IF text = <<>> \/ movie = <<>> \/ cleaned = <<>> THEN <<>>
        ELSE << [word   |-> w,
                 phrase |-> IF client.present THEN ai_bracket(w, cleaned, client)
                                              ELSE auto_bracket(w, cleaned),
                 video  |-> extract_video_filename(movie)] >>

\* The inner loop (line 360) over the raw phrases of one row, from the i-th on.
RECURSIVE PhrasesOfRow(_, _, _, _)
PhrasesOfRow(w, raw, i, client) ==
    IF i > Len(raw) THEN <<>>
    ELSE PhraseEntryOf(w, raw[i], client) \o PhrasesOfRow(w, raw, i + 1, client)

\* The outer loop (line 356) over the entries, from the i-th on.
RECURSIVE ExtractPhrases(_, _, _, _)
ExtractPhrases(es, lookup, i, client) ==
    IF i > Len(es) THEN <<>>
    ELSE PhrasesOfRow(es[i].word,
                      parse_phrases_column(Get(lookup, es[i].word).phrases), 1, client)
         \o ExtractPhrases(es, lookup, i + 1, client)

\* The request of line 374 raises, and nothing catches it: the service fails and
\* some phrase of the entries reaches the bracketing step.
AiCallRaises(a, es, lookup, client) ==
    /\ a.phrases /\ client.present /\ client.answers = "raises"
    /\ ExtractPhrases(es, lookup, 1, NoClient) # <<>>

\* The key of the deduplication (line 385).
PhraseKeyMutant(pe) == <<pe.word, pe.phrase, pe.video>>

PhraseKey(pe) == <<pe.word, pe.phrase>>

\* Lines 382-389: the first entry of every (word, phrase) key, in order.
RECURSIVE DedupFrom(_, _, _)
DedupFrom(pes, i, seen_phrases) ==
    IF i > Len(pes) THEN <<>>
    ELSE IF PhraseKey(pes[i]) \notin seen_phrases
         THEN <<pes[i]>> \o DedupFrom(pes, i + 1, seen_phrases \cup {PhraseKey(pes[i])})
         ELSE DedupFrom(pes, i + 1, seen_phrases)

Deduplicate(pes) == DedupFrom(pes, 1, {})

\* Lines 354-389.
PhraseEntries(a, es, lookup, client) ==
    IF a.phrases THEN Deduplicate(ExtractPhrases(es, lookup, 1, client)) ELSE <<>>

(***************************************************************************)
(* gen_phrases.py: main                                                    *)
(***************************************************************************)

\* Line 16, the pattern of re.findall on the text of wordlist.js: an entry is found
\* when its word is not empty and its video ends with "-", five digits and
\* "-tecken.mp4"; group 2 is the five digits.
IsTeckenVideo(video) ==
    LET n == Len(video) - Len(TeckenSuffix) IN
    /\ EndsWith(video, TeckenSuffix)
    /\ n >= ID_DIGITS + 1
    /\ \A k \in (n - ID_DIGITS + 1)..n : IsDigit(video[k])
    /\ video[n - ID_DIGITS] = "-"

TeckenId(video) ==
    LET n == Len(video) - Len(TeckenSuffix) IN Slice(video, n - ID_DIGITS + 1, n)

FoundEntries(wl) ==
    Pick(wl, {i \in 1..Len(wl) : wl[i].word # <<>> /\ IsTeckenVideo(wl[i].video)})

\* Lines 19-21: id_to_word, the last entry of an id wins.
HasId(found, vid_id) == \E i \in 1..Len(found) : TeckenId(found[i].video) = vid_id

WordOfId(found, vid_id) ==
    LET places == {i \in 1..Len(found) : TeckenId(found[i].video) = vid_id} IN
    found[CHOOSE i \in places : \A j \in places : i >= j].word

FrasInfix == <<"-", "f", "r", "a", "s", "-">>

\* Line 46, re.search(r"-(\d{5})-fras-", movie): the places where the pattern
\* matches, and the five digits of the first of them.
FrasPlaces(movie) ==
    {i \in 1..Len(movie) :
        /\ i + ID_DIGITS + Len(FrasInfix) <= Len(movie)
        /\ movie[i] = "-"
        /\ \A k \in (i + 1)..(i + ID_DIGITS) : IsDigit(movie[k])
        /\ Slice(movie, i + ID_DIGITS + 1, i + ID_DIGITS + Len(FrasInfix)) = FrasInfix}

FrasId(movie) ==
    LET i == CHOOSE i \in FrasPlaces(movie) : \A j \in FrasPlaces(movie) : i <= j
    IN  Slice(movie, i + 1, i + ID_DIGITS)

\* Line 61, re.sub(r"^alt\s*\d+\.\s*", "", phrase_text): as line 366 of
\* gen_wordlist.py, but the whitespace after "alt" may be missing.
ScriptStripAltPrefix(s) ==
    LET sp   == RunOfSpace(s, 4)
        dg   == RunOfDigits(s, 4 + sp)
        dot  == 4 + sp + dg
        tail == RunOfSpace(s, dot + 1)
    IN  IF /\ Len(s) >= 3 /\ s[1] = "a" /\ s[2] = "l" /\ s[3] = "t"
           /\ dg >= 1
           /\ dot <= Len(s) /\ s[dot] = "."
        THEN Slice(s, dot + tail + 1, Len(s))
        ELSE s

RECURSIVE RunOfWordChars(_, _)
RunOfWordChars(s, i) ==
    IF i <= Len(s) /\ IsWordChar(s[i]) THEN 1 + RunOfWordChars(s, i + 1) ELSE 0

\* Lines 71-76, re.sub of the pattern "not after [, then the escaped word and a
\* greedy run of word characters", ignoring case: the end of the match that starts
\* at i, 0 when there is none.
ScriptMatchEnd(w, s, i) ==
    IF (i = 1 \/ s[i - 1] # "[") /\ LiteralAt(w, s, i)
    THEN i + Len(w) - 1 + RunOfWordChars(s, i + Len(w))
    ELSE 0

RECURSIVE ScriptSubFrom(_, _, _)
ScriptSubFrom(w, s, i) ==
    IF i > Len(s) THEN <<>>
    ELSE LET e == ScriptMatchEnd(w, s, i) IN
         IF e # 0
         THEN <<"[">> \o Slice(s, i, e) \o <<"]">> \o ScriptSubFrom(w, s, e + 1)
         ELSE <<s[i]>> \o ScriptSubFrom(w, s, i + 1)

\* Lines 31-82: the phrases of the rows of phrases.csv from the i-th on.
RECURSIVE PhrasesFrom(_, _, _, _)
PhrasesFrom(rows, i, found, seen_videos) ==
    IF i > Len(rows) THEN <<>>
    ELSE LET movie    == Strip(rows[i].movie)
             text     == Strip(rows[i].phrase)
             csv_word == Strip(rows[i].word)
             cleaned  == Strip(CollapseWhitespace(ScriptStripAltPrefix(text)))
         IN  IF \/ movie = <<>> \/ text = <<>>
                \/ Contains(csv_word, <<" ">>)
                \/ FrasPlaces(movie) = {}
                \/ movie \in seen_videos
             THEN PhrasesFrom(rows, i + 1, found, seen_videos)
             ELSE IF ~HasId(found, FrasId(movie)) \/ cleaned = <<>>
             THEN PhrasesFrom(rows, i + 1, found, seen_videos \cup {movie})
             ELSE << [word   |-> WordOfId(found, FrasId(movie)),
                      phrase |-> ScriptSubFrom(WordOfId(found, FrasId(movie)), cleaned, 1),
                      video  |-> movie] >>
                  \o PhrasesFrom(rows, i + 1, found, seen_videos \cup {movie})

\* gen_phrases.main: the phrases written to phrases.js.
GenPhrases(wl, rows) == PhrasesFrom(rows, 1, FoundEntries(wl), {})

(***************************************************************************)
(* main: chunks (lines 395-398)                                            *)
(***************************************************************************)

\* math.ceil(a / b) for positive b.
CeilDiv(a, b) == (a + b - 1) \div b

\* args.split and len(entries) > args.split
IsSplit(es, split) == split # 0 /\ Len(es) > split

ChunkSizeMutant(total, split) == split

\* chunk_size (lines 396-397)
ChunkSize(total, split) == CeilDiv(total, CeilDiv(total, split))

\* [entries[i:i + chunk_size] for i in range(0, len(entries), chunk_size)]; the
\* whole list as one chunk when the output is not split.
Chunks(es, split) ==
    IF IsSplit(es, split)
    THEN LET size == ChunkSize(Len(es), split) IN
         [n \in 1..CeilDiv(Len(es), size) |->
            Slice(es, (n - 1) * size + 1,
                  IF n * size < Len(es) THEN n * size ELSE Len(es))]
    ELSE <<es>>

(***************************************************************************)
(* The output directory: write_wordlist_js and rebuild_all_js              *)
(***************************************************************************)

\* The characters of the model in code-point order.
AsciiOrder ==
    <<" ", ",", "-", ".", "/", "0", "1", "2", "3", "4", "5", "6", "7", "8", "9", ":">>
    \o UpperLetters \o <<"[", "]", "_">> \o LowerLetters

\* ord(c)
Ord(c) == CHOOSE i \in 1..Len(AsciiOrder) : AsciiOrder[i] = c

\* s < t for Python strings: at the first place where they differ the character of
\* s is the smaller, or s is a proper prefix of t.
StrLess(s, t) ==
    \E k \in 1..(Len(t)) :
        /\ k <= Len(s) + 1
        /\ \A i \in 1..(k - 1) : s[i] = t[i]
        /\ (k = Len(s) + 1 \/ Ord(s[k]) < Ord(t[k]))

\* sorted(names): the name with k - 1 smaller names stands at place k.
SortedNames(names) ==
    [k \in 1..Cardinality(names) |->
        CHOOSE n \in names : Cardinality({m \in names : StrLess(m, n)}) = k - 1]

JsSuffix == <<".", "j", "s">>

AllJs == <<"a", "l", "l", ".", "j", "s">>

\* A piece of a file's text: the header line of the index, the separator comment
\* of a file in the index, the push statement of a wordlist, or other text.
Block(kind, id, name, words, phrases) ==
    [kind |-> kind, id |-> id, name |-> name, words |-> words, phrases |-> phrases]

HeaderBlock == Block("header", <<>>, <<>>, <<>>, <<>>)

SeparatorBlock(f) == Block("separator", <<>>, f, <<>>, <<>>)

\* open(path, "w") ... : the file is created or overwritten in full.
WriteFile(fs, path, content) ==
    [f \in DOMAIN fs \cup {path} |-> IF f = path THEN content ELSE fs[f]]

\* write_wordlist_js: one push statement with the id, the name, the words and, when
\* there are any, the phrases.
write_wordlist_js(fs, output_path, wl_id, wl_name, es, pes) ==
    WriteFile(fs, output_path, <<Block("push", wl_id, wl_name, es, pes)>>)

ListedMutant(fs) == {f \in DOMAIN fs : EndsWith(f, JsSuffix)}

\* Lines 46-47: the files the index is built from.
Listed(fs) == {f \in DOMAIN fs : EndsWith(f, JsSuffix) /\ f # AllJs}

\* Lines 51-54: the separator and the text of each file, from the i-th on.
RECURSIVE IndexBody(_, _, _)
IndexBody(fs, names, i) ==
    IF i > Len(names) THEN <<>>
    ELSE <<SeparatorBlock(names[i])>> \o fs[names[i]] \o IndexBody(fs, names, i + 1)

\* rebuild_all_js
rebuild_all_js(fs) ==
    WriteFile(fs, AllJs, <<HeaderBlock>> \o IndexBody(fs, SortedNames(Listed(fs)), 1))

(***************************************************************************)
(* main: the enumerate-categories query (lines 226-236)                    *)
(***************************************************************************)

PreviousCountMutant(cats, slug) == 0

\* Line 232: cats.get(slug, (label, 0))[1], the count of the slug so far.
PreviousCount(cats, slug) ==
    LET at == {k \in 1..Len(cats) : cats[k].slug = slug} IN
    IF at = {} THEN 0 ELSE cats[CHOOSE k \in at : TRUE].count

\* Lines 228-232: cats after the rows from the i-th on; an entry of cats is a
\* slug with its label and count.
RECURSIVE CatsFrom(_, _, _)
CatsFrom(rows, i, cats) ==
    IF i > Len(rows) THEN cats
    ELSE LET slug  == Strip(rows[i].category_slug)
             label == Strip(rows[i].category)
             at    == {k \in 1..Len(cats) : cats[k].slug = slug}
             entry == [slug |-> slug, label |-> label,
                       count |-> PreviousCount(cats, slug) + 1]
         IN  IF slug = <<>> THEN CatsFrom(rows, i + 1, cats)
             ELSE IF at = {} THEN CatsFrom(rows, i + 1, Append(cats, entry))
             ELSE CatsFrom(rows, i + 1, [cats EXCEPT ![CHOOSE k \in at : TRUE] = entry])

\* Lines 233-235: one line for each slug, in sorted order.
ListCategories(rows) ==
    LET cats  == CatsFrom(rows, 1, <<>>)
        slugs == SortedNames({cats[k].slug : k \in 1..Len(cats)})
    IN  [n \in 1..Len(slugs) |-> cats[CHOOSE k \in 1..Len(cats) : cats[k].slug = slugs[n]]]

(***************************************************************************)
(* main                                                                    *)
(***************************************************************************)

\* Line 402: the phrases of the words of a chunk.
ChunkPhrases(chunk, pes) ==
    Pick(pes, {i \in 1..Len(pes) : \E k \in 1..Len(chunk) : chunk[k].word = pes[i].word})

\* Lines 400-408: the files of the chunks from the n-th on.
RECURSIVE WriteChunks(_, _, _, _, _)
WriteChunks(fs, a, cs, pes, n) ==
    IF n > Len(cs) THEN fs
    ELSE WriteChunks(
            write_wordlist_js(fs, a.id \o Str(n) \o JsSuffix, a.id \o Str(n),
                              a.name \o <<" ">> \o Str(n), cs[n], ChunkPhrases(cs[n], pes)),
            a, cs, pes, n + 1)

\* Lines 393-429: the files written, then the index rebuilt.
WriteOutput(fs, a, es, pes) ==
    IF IsSplit(es, a.split)
    THEN rebuild_all_js(WriteChunks(fs, a, Chunks(es, a.split), pes, 1))
    ELSE rebuild_all_js(write_wordlist_js(fs, a.id \o JsSuffix, a.id, a.name, es, pes))

\* Lines 436-438.
ExitOf(es) == IF Len(es) = 0 THEN 1 ELSE 0

ParserError == 2

\* One run of main on the command line a, the catalog rows, the word file lines,
\* the corpus file, the remote host and the annotation service.
Main(a, rows, lines, file, host, service) ==
    IF a.rebuild THEN
        \* lines 213-215
        /\ files' = rebuild_all_js(files)
        /\ exit_code' = 0
        /\ UNCHANGED <<localVars, output>>
    ELSE IF ~a.csv_exists THEN
        \* lines 217-219
        /\ exit_code' = 1
        /\ UNCHANGED <<localVars, files, output>>
    ELSE IF a.list_categories THEN
        \* lines 226-236
        /\ output' = ListCategories(rows)
        /\ exit_code' = 0
        /\ UNCHANGED <<localVars, files>>
    ELSE IF a.id = <<>> \/ a.name = <<>> \/ (~a.wordfile /\ a.category = <<>>) THEN
        \* lines 239-243
        /\ exit_code' = ParserError
        /\ UNCHANGED <<localVars, files, output>>
    ELSE IF a.ai_bracket /\ service = NoPackage THEN
        \* lines 247-253
        /\ exit_code' = 1
        /\ UNCHANGED <<localVars, files, output>>
    ELSE
        \* lines 257-438
        LET client == AiClient(a, service)
            lookup == WordLookup(rows, a.category)
            cands  == Trim(RankedCandidates(a, lines, lookup, file), a.maxlength)
            es     == BuildEntries(cands, lookup, a, host)
            pes    == PhraseEntries(a, es, lookup, client)
        IN  IF AiCallRaises(a, es, lookup, client) THEN
                \* line 374: an uncaught exception ends the run in the first
                \* request, before any write; the exit status is 1
                /\ word_lookup' = lookup
                /\ candidates' = cands
                /\ entries' = es
                /\ exit_code' = 1
                /\ UNCHANGED <<phrase_entries, chunks, files, output>>
            ELSE
                /\ word_lookup' = lookup
                /\ candidates' = cands
                /\ entries' = es
                /\ phrase_entries' = pes
                /\ chunks' = Chunks(es, a.split)
                /\ files' = WriteOutput(files, a, es, pes)
                /\ exit_code' = ExitOf(es)
                /\ UNCHANGED output

(***************************************************************************)
(* Specification SpecBracket: auto_bracket applied to a word and a phrase  *)
(***************************************************************************)

MaxPhraseLen == 5

BracketChars == {"a", "b", "A", "[", "]", " "}

BracketWords == {<<"a">>, <<"a", "b">>, <<"b", "a">>}

BracketIdle == word = <<>> /\ phrase_text = <<>> /\ bracketed = <<>>

ScriptIdle == wordlist_js = <<>> /\ phrases_csv = <<>> /\ phrases_js = <<>>

InputIdle ==
    /\ args = NoArgs /\ sign_rows = <<>> /\ wordfile_lines = <<>>
    /\ freq_file = NoFile /\ remote = {}
    /\ ai_service = NoPackage

LocalIdle ==
    /\ word_lookup = <<>> /\ candidates = <<>> /\ entries = <<>>
    /\ phrase_entries = <<>> /\ chunks = <<>>

OutIdle == files = <<>> /\ exit_code = 0 /\ output = <<>> /\ runs = 0

InitBracket ==
    /\ pc = "ready"
    /\ word \in BracketWords
    /\ phrase_text \in StringsUpTo(BracketChars, MaxPhraseLen)
    /\ bracketed = <<>>
    /\ InputIdle /\ LocalIdle /\ OutIdle /\ ScriptIdle

ApplyAutoBracket ==
    /\ pc = "ready"
    /\ bracketed' = auto_bracket(word, phrase_text)
    /\ pc' = "done"
    /\ UNCHANGED <<word, phrase_text, inputVars, localVars, outVars, scriptVars>>

NextBracket == ApplyAutoBracket

SpecBracket == InitBracket /\ [][NextBracket]_vars

(***************************************************************************)
(* C7: bracketing of phrases that are bracketed already                    *)
(***************************************************************************)

\* A form of the word starts at i: the word itself, at the start of a word.
FormAt(w, s, i) ==
    /\ LiteralAt(w, s, i)
    /\ (i = 1 \/ ~IsWordChar(s[i - 1]))

\* The end of the form that starts at i: the word and the word characters after it.
FormEnd(w, s, i) ==
    CHOOSE e \in (i + Len(w) - 1)..Len(s) :
        /\ \A k \in (i + Len(w))..e : IsWordChar(s[k])
        /\ (e = Len(s) \/ ~IsWordChar(s[e + 1]))

\* The form that starts at i is immediately preceded by "[" or followed by "]".
AlreadyBracketedAt(w, s, i) ==
    \/ (i > 1 /\ s[i - 1] = "[")
    \/ (FormEnd(w, s, i) < Len(s) /\ s[FormEnd(w, s, i) + 1] = "]")

AlreadyBracketed(w, s) ==
    \A i \in 1..Len(s) : FormAt(w, s, i) => AlreadyBracketedAt(w, s, i)

\* C7: auto_bracket returns a phrase unchanged when every form of the word in it is
\* already bracketed (immediately preceded by "[" or immediately followed by "]"):
\* such an occurrence is skipped, neither re-wrapped nor partially wrapped.
C7_BracketingIdempotent ==
    pc = "done" /\ AlreadyBracketed(word, phrase_text) => bracketed = phrase_text

(***************************************************************************)
(* Specification SpecLookup: the word lookup built from the catalog        *)
(***************************************************************************)

MaxRows == 3

WordA == <<"a">>
WordB == <<"b">>
WordC == <<"c">>

MovieOne == <<"m", "/", "1">>
MovieTwo == <<"2">>

\* Descriptions: pure fingerspelling, and fingerspelling with a combined sign.
BokDescription == BokPrefix \o <<" ", "a">>
BokCombined == BokPrefix \o <<" ", "a", " ", "/", "/", " ", "b">>

\* Catalog rows: two spellings of the word "a" with different videos, rows without
\* a video (empty or blank), slugs in two spellings, fingerspelling rows.
LookupRowSet ==
    { RowOf(<<"a">>,      MovieOne, <<"X">>, <<"x">>,      <<>>, Malformed),
      RowOf(<<"A", " ">>, MovieTwo, <<"X">>, <<"X", " ">>, <<>>, Malformed),
      RowOf(<<"a">>,      <<>>,     <<"X">>, <<"x">>,      <<>>, Malformed),
      RowOf(<<"b">>,      MovieOne, <<"Y">>, <<"y">>,      <<>>, Malformed),
      RowOf(<<"b">>,      <<" ">>,  <<"X">>, <<"x">>,      <<>>, Malformed),
      RowOf(<<"a">>,      MovieTwo, <<>>,    <<>>,         BokDescription, Malformed),
      RowOf(<<"b">>,      MovieTwo, <<"Y">>, <<"y">>,      BokCombined, Malformed),
      RowOf(<<"b">>,      MovieTwo, <<>>,    <<>>,         <<>>, Malformed) }

\* --category texts: none, one slug, two slugs with spaces and capitals, the
\* reserved slug alone and with another, a slug no row has.
LookupCategories ==
    { <<>>,
      <<"x">>,
      <<"X", " ", ",", "y", ",">>,
      BOK_SLUG,
      <<"y", ",">> \o BOK_SLUG,
      <<"z">> }

InitLookup ==
    /\ pc = "ready"
    /\ sign_rows \in StringsUpTo(LookupRowSet, MaxRows)
    /\ \E c \in LookupCategories : args = [NoArgs EXCEPT !.category = c]
    /\ wordfile_lines = <<>> /\ freq_file = NoFile /\ remote = {}
    /\ ai_service = NoPackage
    /\ LocalIdle /\ BracketIdle /\ ScriptIdle /\ OutIdle

BuildLookup ==
    /\ pc = "ready"
    /\ word_lookup' = WordLookup(sign_rows, args.category)
    /\ pc' = "done"
    /\ UNCHANGED <<outVars, bracketVars, scriptVars, inputVars, candidates, entries,
                   phrase_entries, chunks>>

NextLookup == BuildLookup

SpecLookup == InitLookup /\ [][NextLookup]_vars

\* The slugs the command line asks for, the reserved one apart.
Requested == CategorySlugs(args.category)

\* The row has a video and matches an active filter: its slug, whatever its case,
\* is a requested one, or the reserved slug is requested and the row is
\* fingerspelling.
InR(row) ==
    /\ Strip(row.movie) # <<>>
    /\ \/ Lower(Strip(row.category_slug)) \in Requested \ {BOK_SLUG}
       \/ (BOK_SLUG \in Requested /\ is_bokstavering_row(row))

FoldedWord(row) == Lower(Strip(row.word))

\* C3: with active category filters, the lookup holds exactly one entry for each
\* distinct lower-cased word of the matching rows that have a video, and the row
\* it stores is the first such row of the catalog; a row without a video or
\* matching no filter never enters the lookup.
C3_LookupFirstSeen ==
    pc = "done" /\ Requested # {} =>
        LET R == {i \in 1..Len(sign_rows) : InR(sign_rows[i])} IN
        /\ {word_lookup[k].word : k \in 1..Len(word_lookup)}
              = {FoldedWord(sign_rows[i]) : i \in R}
        /\ \A k, l \in 1..Len(word_lookup) :
              k # l => word_lookup[k].word # word_lookup[l].word
        /\ \A k \in 1..Len(word_lookup) :
              \E i \in R :
                 /\ word_lookup[k].row = sign_rows[i]
                 /\ FoldedWord(sign_rows[i]) = word_lookup[k].word
                 /\ \A j \in R : FoldedWord(sign_rows[j]) = word_lookup[k].word => i <= j

\* A word has two matching rows with different videos, a matching row has no
\* video, and a row with a video matches no filter.
C3_Witness ==
    /\ pc = "done" /\ Requested # {}
    /\ \E i, j \in 1..Len(sign_rows) :
          /\ i < j /\ InR(sign_rows[i]) /\ InR(sign_rows[j])
          /\ FoldedWord(sign_rows[i]) = FoldedWord(sign_rows[j])
          /\ sign_rows[i].movie # sign_rows[j].movie
    /\ Len(word_lookup) = 1
    /\ \E i \in 1..Len(sign_rows) :
          Strip(sign_rows[i].movie) = <<>> \/ ~Matches(sign_rows[i], Requested)

(***************************************************************************)
(* Specification SpecRank: the candidate list and its ranking              *)
(***************************************************************************)

MaxLines == 3

MaxCorpus == 2

PlainRow(w) == RowOf(w, MovieOne, <<"X">>, <<"x">>, <<>>, Malformed)

LookupOf(ws) == [i \in 1..Len(ws) |-> [word |-> ws[i], row |-> PlainRow(ws[i])]]

\* Lookups, by the order of their keys.
RankLookups ==
    { LookupOf(<<WordA>>), LookupOf(<<WordB, WordA>>),
      LookupOf(<<WordA, WordB, WordC>>), LookupOf(<<WordC, WordB, WordA>>),
      LookupOf(<<WordB, WordC, WordA>>) }

\* Lines of a word file.
WordFileLineSet == {<<"a">>, <<" ", "B">>, <<"c">>}

\* Lines of the corpus: the first field and the number of tab-separated fields.
CorpusLineSet ==
    { [first |-> <<"a">>,      fields |-> 5],
      [first |-> <<"A", " ">>, fields |-> 6],
      [first |-> <<"b">>,      fields |-> 5],
      [first |-> <<"c">>,      fields |-> 4] }

CorpusFiles ==
    {NoFile} \cup {[exists |-> TRUE, lines |-> ls] : ls \in StringsUpTo(CorpusLineSet, MaxCorpus)}

InitRank ==
    /\ pc = "ready"
    /\ word_lookup \in RankLookups
    /\ \/ /\ args = [NoArgs EXCEPT !.category = <<"x">>]
          /\ wordfile_lines = <<>>
       \/ /\ args = [NoArgs EXCEPT !.wordfile = TRUE]
          /\ wordfile_lines \in StringsUpTo(WordFileLineSet, MaxLines)
    /\ freq_file \in CorpusFiles
    /\ sign_rows = <<>> /\ remote = {} /\ ai_service = NoPackage
    /\ candidates = <<>> /\ entries = <<>> /\ phrase_entries = <<>> /\ chunks = <<>>
    /\ BracketIdle /\ ScriptIdle /\ OutIdle

RankCandidates ==
    /\ pc = "ready"
    /\ candidates' = RankedCandidates(args, wordfile_lines, word_lookup, freq_file)
    /\ pc' = "done"
    /\ UNCHANGED <<outVars, bracketVars, scriptVars, inputVars, word_lookup, entries,
                   phrase_entries, chunks>>

NextRank == RankCandidates

SpecRank == InitRank /\ [][NextRank]_vars

\* The word is in the frequency table.
Present(F, w) == \E k \in 1..Len(F) : F[k] = w

\* The place of a present word in the table.
PlaceIn(F, w) == CHOOSE k \in 1..Len(F) : F[k] = w

\* The number of times a word stands in a list.
Count(s, w) == Cardinality({i \in 1..Len(s) : s[i] = w})

\* C2: ranking is a stable sort by ascending rank: the candidates present in the
\* table come before the absent ones, in non-decreasing rank order; the absent
\* ones keep the order they had; with an empty table the order is unchanged.
C2_StableRankSort ==
    pc = "done" =>
        LET F      == Frequency(freq_file)
            before == CandidateList(args, wordfile_lines, word_lookup)
            after  == candidates
        IN  /\ Len(after) = Len(before)
            /\ \A i \in 1..Len(before) : Count(after, before[i]) = Count(before, before[i])
            /\ \A i, j \in 1..Len(after) :
                  i < j =>
                     /\ Present(F, after[j]) => Present(F, after[i])
                     /\ Present(F, after[j]) => PlaceIn(F, after[i]) <= PlaceIn(F, after[j])
            /\ Pick(after, {i \in 1..Len(after) : ~Present(F, after[i])})
                  = Pick(before, {i \in 1..Len(before) : ~Present(F, before[i])})
            /\ F = <<>> => after = before

\* Two absent candidates in an order that is not alphabetical follow a present
\* candidate that stood after them.
C2_Witness ==
    /\ pc = "done" /\ Len(candidates) = 3
    /\ LET F      == Frequency(freq_file)
           before == CandidateList(args, wordfile_lines, word_lookup)
       IN  /\ Present(F, before[3]) /\ ~Present(F, before[1]) /\ ~Present(F, before[2])
           /\ before[1] = WordC /\ before[2] = WordB
           /\ candidates = <<before[3], before[1], before[2]>>

(***************************************************************************)
(* Specification SpecChunk: the split of the entries into chunks           *)
(***************************************************************************)

MaxEntries == 8

\* n distinct word entries.
EntriesOfLen(n) ==
    [i \in 1..n |-> [word |-> <<"a">> \o Str(i), video |-> <<"v">> \o Str(i)]]

InitChunk ==
    /\ pc = "ready"
    /\ \E n \in 0..MaxEntries : entries = EntriesOfLen(n)
    /\ \E k \in 0..MaxEntries : args = [NoArgs EXCEPT !.split = k]
    /\ sign_rows = <<>> /\ wordfile_lines = <<>> /\ freq_file = NoFile /\ remote = {}
    /\ ai_service = NoPackage
    /\ word_lookup = <<>> /\ candidates = <<>> /\ phrase_entries = <<>> /\ chunks = <<>>
    /\ BracketIdle /\ ScriptIdle /\ OutIdle

ApplyChunks ==
    /\ pc = "ready"
    /\ chunks' = Chunks(entries, args.split)
    /\ pc' = "done"
    /\ UNCHANGED <<outVars, bracketVars, scriptVars, inputVars, word_lookup, candidates, entries,
                   phrase_entries>>

NextChunk == ApplyChunks

SpecChunk == InitChunk /\ [][NextChunk]_vars

\* The output was split: 1 <= chunkSize < total.
SplitRequested == 1 <= args.split /\ args.split < Len(entries)

\* ceil(a / b): the least n with n * b >= a.
Ceil(a, b) == CHOOSE n \in 0..a : n * b >= a /\ \A m \in 0..(n - 1) : m * b < a

RECURSIVE Concat(_, _)
Concat(seqs, i) == IF i > Len(seqs) THEN <<>> ELSE seqs[i] \o Concat(seqs, i + 1)

\* C4: when 1 <= chunkSize < total, no chunk is larger than
\* ceil(total / ceil(total / chunkSize)), hence none larger than chunkSize, and
\* the chunks concatenated in order are the entries, none lost or duplicated.
C4_ChunkBoundAndConcat ==
    pc = "done" /\ SplitRequested =>
        /\ \A n \in 1..Len(chunks) :
              /\ Len(chunks[n]) <= Ceil(Len(entries), Ceil(Len(entries), args.split))
              /\ Len(chunks[n]) <= args.split
        /\ Concat(chunks, 1) = entries

\* Two chunks, smaller than the requested size, the last the smaller.
C4_Witness ==
    /\ pc = "done" /\ SplitRequested
    /\ Len(chunks) = 2
    /\ Len(chunks[2]) < Len(chunks[1])
    /\ Len(chunks[1]) < args.split

\* C5: when 1 <= chunkSize < total, the sizes of any two chunks written, the last
\* included, differ by at most one word.
C5_ChunksBalanced ==
    pc = "done" /\ SplitRequested =>
        \A m, n \in 1..Len(chunks) :
            Len(chunks[m]) - Len(chunks[n]) <= 1

(***************************************************************************)
(* Specification SpecPhrases: phrase extraction and deduplication          *)
(***************************************************************************)

MaxRawPhrases == 2

\* Raw phrase records of the phrases column. The first three clean to the same
\* text; the last has no movie.
RawPhraseSet ==
    { [phrase |-> <<"a", " ", "b">>,      movie |-> <<"m", "/", "1">>],
      [phrase |-> <<"a", " ", " ", "b">>, movie |-> <<"m", "/", "2">>],
      [phrase |-> <<"a", "l", "t", " ", "1", ".", " ", "a", " ", "b">>,
                                          movie |-> <<"3">>],
      [phrase |-> <<"b", " ">>,           movie |-> <<"m", "/", "1">>],
      [phrase |-> <<"b">>,                movie |-> <<" ">>] }

PhraseColumns ==
    {Column(list) : list \in StringsUpTo(RawPhraseSet, MaxRawPhrases)} \cup {Malformed}

PhraseRow(w, phrases) == RowOf(w, <<"m", "/", "0">>, <<"X">>, <<"x">>, <<>>, phrases)

\* The entries of the run: words of the lookup, one of them twice when the word
\* file names it twice.
PhraseEntryLists ==
    LET e(w) == [word |-> w, video |-> <<"0">>] IN
    { <<e(WordA)>>, <<e(WordB), e(WordA)>>, <<e(WordA), e(WordB), e(WordA)>> }

InitPhrases ==
    /\ pc = "ready"
    /\ \E pa, pb \in PhraseColumns :
          word_lookup = << [word |-> WordA, row |-> PhraseRow(WordA, pa)],
                           [word |-> WordB, row |-> PhraseRow(WordB, pb)] >>
    /\ entries \in PhraseEntryLists
    /\ \E b \in BOOLEAN : args = [NoArgs EXCEPT !.phrases = b, !.category = <<"x">>]
    /\ sign_rows = <<>> /\ wordfile_lines = <<>> /\ freq_file = NoFile /\ remote = {}
    /\ ai_service = NoPackage
    /\ candidates = <<>> /\ phrase_entries = <<>> /\ chunks = <<>>
    /\ BracketIdle /\ ScriptIdle /\ OutIdle

BuildPhraseEntries ==
    /\ pc = "ready"
    /\ phrase_entries' =
          PhraseEntries(args, entries, word_lookup, AiClient(args, ai_service))
    /\ pc' = "done"
    /\ UNCHANGED <<outVars, bracketVars, scriptVars, inputVars, word_lookup,
                   candidates, entries, chunks>>

NextPhrases == BuildPhraseEntries

SpecPhrases == InitPhrases /\ [][NextPhrases]_vars

SameKey(p, q) == p.word = q.word /\ p.phrase = q.phrase

\* The places of a list that hold the first phrase of their (word, text) pair.
FirstPlaces(pes) ==
    {i \in 1..Len(pes) : \A j \in 1..(i - 1) : ~SameKey(pes[j], pes[i])}

\* C6: after deduplication no two phrase entries share their (word, phrase text)
\* pair; of the extracted phrases with one pair exactly the first survives, with
\* its video, and the survivors keep their extraction order.
C6_DedupKeepsFirst ==
    pc = "done" /\ args.phrases =>
        LET extracted == ExtractPhrases(entries, word_lookup, 1, AiClient(args, ai_service))
            first     == FirstPlaces(extracted)
        IN  /\ \A i, j \in 1..Len(phrase_entries) :
                  i # j => ~SameKey(phrase_entries[i], phrase_entries[j])
            /\ Len(phrase_entries) = Cardinality(first)
            /\ \A k \in 1..Len(phrase_entries) :
                  phrase_entries[k] = extracted[KthOf(first, k)]

\* Two extracted phrases share their pair and differ in their video, and another
\* pair follows them.
C6_Witness ==
    /\ pc = "done" /\ args.phrases
    /\ LET extracted == ExtractPhrases(entries, word_lookup, 1, AiClient(args, ai_service)) IN
       /\ \E i, j \in 1..Len(extracted) :
             /\ i < j
             /\ SameKey(extracted[i], extracted[j])
             /\ extracted[i].video # extracted[j].video
       /\ Len(phrase_entries) < Len(extracted)
    /\ Len(phrase_entries) >= 2

(***************************************************************************)
(* Specification SpecClean: phrase cleaning of one raw phrase that may     *)
(* carry a leading "alt N." marker                                         *)
(***************************************************************************)

MaxGap == 2

\* The spellings of the marker word, the whitespace after it and after the dot,
\* the numbers, and the texts that follow the marker.
AltSpellings == { <<"a", "l", "t">>, <<"A", "l", "t">>, <<"A", "L", "T">> }

Gaps == StringsUpTo({" "}, MaxGap)

AltNumbers == { <<"1">>, <<"1", "2">> }

CleanBodies ==
    { <<"a", " ", "b">>, <<"b">>, <<"a", "l", "t", " ", "2", ".", " ", "b">>, <<>> }

\* Raw phrases: a text alone, or a marker in front of it.
MarkedPhraseSet ==
    CleanBodies \cup
    { alt \o g \o n \o <<".">> \o t \o body :
        alt \in AltSpellings, g \in Gaps, n \in AltNumbers, t \in Gaps,
        body \in CleanBodies }

\* The movie of a phrase of the word w, as the catalog and phrases.csv name it.
FrasMovie(w) ==
    MoviePath(w \o <<"-", "0", "0", "0", "0", "1">> \o FrasInfix \o <<"1", ".", "m", "p", "4">>)

\* wordlist.js: it holds the word with the video of the phrase's id, or with the
\* video of another id.
CleanWordLists(w) ==
    { << [word |-> w, video |-> Tecken(w, "1")] >>,
      << [word |-> w, video |-> Tecken(w, "2")] >> }

\* Command lines: without phrases, with phrases bracketed by the pattern, with
\* phrases bracketed by the service.
CleanArgs ==
    { [NoArgs EXCEPT !.category = <<"x">>],
      [NoArgs EXCEPT !.category = <<"x">>, !.phrases = TRUE],
      [NoArgs EXCEPT !.category = <<"x">>, !.phrases = TRUE, !.ai_bracket = TRUE] }

\* One raw phrase of one word, in the phrases column of the catalog row of the
\* word (gen_wordlist.py) and in a row of phrases.csv (gen_phrases.py).
InitClean ==
    /\ pc = "ready"
    /\ \E w \in {WordA, WordB}, text \in MarkedPhraseSet :
          /\ word_lookup =
                << [word |-> w,
                    row  |-> PhraseRow(w, Column(<< [phrase |-> text,
                                                     movie  |-> FrasMovie(w)] >>))] >>
          /\ entries = << [word |-> w, video |-> Tecken(w, "1")] >>
          /\ wordlist_js \in CleanWordLists(w)
          /\ phrases_csv = << [word |-> w, phrase |-> text, movie |-> FrasMovie(w)] >>
    /\ phrases_js = <<>>
    /\ args \in CleanArgs
    /\ IF args.ai_bracket THEN ai_service \in {"raises"} \cup AiAnswers
                          ELSE ai_service = NoPackage
    /\ sign_rows = <<>> /\ wordfile_lines = <<>> /\ freq_file = NoFile /\ remote = {}
    /\ candidates = <<>> /\ phrase_entries = <<>> /\ chunks = <<>>
    /\ BracketIdle /\ OutIdle

\* Lines 354-389 of gen_wordlist.py on the entries of the run; the run ends there
\* when the request to the service raises.
CleanPhrases ==
    /\ pc = "ready"
    /\ LET client == AiClient(args, ai_service) IN
       IF AiCallRaises(args, entries, word_lookup, client)
       THEN /\ pc' = "failed"
            /\ exit_code' = 1
            /\ UNCHANGED phrase_entries
       ELSE /\ pc' = "done"
            /\ phrase_entries' = PhraseEntries(args, entries, word_lookup, client)
            /\ UNCHANGED exit_code
    /\ UNCHANGED <<files, output, runs, bracketVars, scriptVars, inputVars, word_lookup,
                   candidates, entries, chunks>>

\* One run of gen_phrases.py on wordlist.js and phrases.csv.
GenPhrasesMain ==
    /\ pc = "ready"
    /\ phrases_js' = GenPhrases(wordlist_js, phrases_csv)
    /\ pc' = "written"
    /\ UNCHANGED <<outVars, bracketVars, inputVars, localVars, wordlist_js, phrases_csv>>

NextClean == CleanPhrases \/ GenPhrasesMain

SpecClean == InitClean /\ [][NextClean]_vars

\* A text begins with a marker "alt N." in the wide sense: the word alt in any
\* letter case, any whitespace (none included), at least one digit, a dot.
BeginsWithAltMarker(s) ==
    LET sp == RunOfSpace(s, 4)
        dg == RunOfDigits(s, 4 + sp)
    IN  /\ Len(s) >= 3
        /\ Lower(Slice(s, 1, 3)) = <<"a", "l", "t">>
        /\ dg >= 1
        /\ 4 + sp + dg <= Len(s)
        /\ s[4 + sp + dg] = "."

\* C11: phrase cleaning strips a leading marker "alt N." whatever its letter case
\* and with any whitespace, none included, between "alt" and the number; no
\* stored phrase text begins with such a marker.
C11_AltMarkerStripped ==
    /\ pc = "done" /\ args.phrases =>
          \A k \in 1..Len(phrase_entries) :
              ~BeginsWithAltMarker(phrase_entries[k].phrase)
    /\ pc = "written" =>
          \A k \in 1..Len(phrases_js) : ~BeginsWithAltMarker(phrases_js[k].phrase)

(***************************************************************************)
(* Specification SpecCats: the enumerate-categories query                  *)
(***************************************************************************)

\* Catalog rows: the slug "x" with and without a video and with surrounding
\* space, the slug "X", rows without a slug, the slug "y" with two labels.
CatRowSet ==
    { RowOf(WordA, MovieOne, <<"X">>, <<"x">>,      <<>>, Malformed),
      RowOf(WordB, <<>>,     <<"X">>, <<"x", " ">>, <<>>, Malformed),
      RowOf(WordC, MovieOne, <<"X">>, <<"X">>,      <<>>, Malformed),
      RowOf(WordA, MovieTwo, <<"N">>, <<>>,         <<>>, Malformed),
      RowOf(WordB, <<" ">>,  <<"Y">>, <<"y">>,      <<>>, Malformed),
      RowOf(WordC, MovieTwo, <<"Y", "2">>, <<"y">>, <<>>, Malformed) }

InitCats ==
    /\ pc = "ready"
    /\ sign_rows \in StringsUpTo(CatRowSet, MaxRows)
    /\ args = [NoArgs EXCEPT !.list_categories = TRUE]
    /\ wordfile_lines = <<>> /\ freq_file = NoFile /\ remote = {}
    /\ ai_service = NoPackage
    /\ LocalIdle /\ BracketIdle /\ ScriptIdle /\ OutIdle

RunListCategories ==
    /\ pc = "ready"
    /\ Main(args, sign_rows, wordfile_lines, freq_file, remote, ai_service)
    /\ pc' = "done"
    /\ runs' = runs + 1
    /\ UNCHANGED <<bracketVars, scriptVars, inputVars>>

NextCats == RunListCategories

SpecCats == InitCats /\ [][NextCats]_vars

\* The rows of a slug, and those of them that carry a video.
RowsOfSlug(slug) ==
    {i \in 1..Len(sign_rows) : Strip(sign_rows[i].category_slug) = slug}

UsableRowsOfSlug(slug) ==
    {i \in RowsOfSlug(slug) : Strip(sign_rows[i].movie) # <<>>}

\* Every distinct non-empty slug is reported exactly once, in ascending order,
\* with a label of its rows.
SlugsReportedOnce ==
    /\ {output[n].slug : n \in 1..Len(output)}
          = {Strip(sign_rows[i].category_slug) : i \in 1..Len(sign_rows)} \ {<<>>}
    /\ \A m, n \in 1..Len(output) : m < n => StrLess(output[m].slug, output[n].slug)
    /\ \A n \in 1..Len(output) :
          \E i \in RowsOfSlug(output[n].slug) :
              /\ output[n].label = Strip(sign_rows[i].category)
              /\ \A j \in RowsOfSlug(output[n].slug) : j <= i

\* C10 as claimed: every distinct non-empty slug is reported once, in ascending
\* order, with its label and the number of its rows that carry a video.
C10_CountsUsableVideos ==
    pc = "done" =>
        /\ SlugsReportedOnce
        /\ \A n \in 1..Len(output) :
              output[n].count = Cardinality(UsableRowsOfSlug(output[n].slug))

\* C10 as amended: every distinct non-empty slug is reported once, in ascending
\* order, with the label of its last row and the number of its rows, whether or
\* not they carry a video.
C10_CountsRows ==
    pc = "done" =>
        /\ SlugsReportedOnce
        /\ \A n \in 1..Len(output) :
              output[n].count = Cardinality(RowsOfSlug(output[n].slug))

\* Two slugs are reported, one of them with a row that has no video.
C10_Witness ==
    /\ pc = "done" /\ Len(output) = 2
    /\ \E n \in 1..Len(output) :
          /\ output[n].count = 2
          /\ Cardinality(UsableRowsOfSlug(output[n].slug)) = 1

(***************************************************************************)
(* Specification SpecSelect: one generation run, from the catalog to the   *)
(* written artifact                                                        *)
(***************************************************************************)

VideoA == Tecken(WordA, "1")
VideoA2 == Tecken(WordA, "2")
VideoB == Tecken(WordB, "3")

\* Catalog rows: the words a, b and c in one category, the word a a second time
\* with another video, and c with a filename the verifier rejects.
SelectRowSet ==
    { RowOf(WordA,         MoviePath(VideoA),  <<"X">>, <<"x">>, <<>>, Malformed),
      RowOf(<<"A", " ">>,  MoviePath(VideoA2), <<"X">>, <<"x">>, <<>>, Malformed),
      RowOf(WordB,         VideoB,             <<"X">>, <<"x">>, <<>>, Malformed),
      RowOf(WordC,         <<"c", ".", "m", "p", "4">>, <<"X">>, <<"x">>, <<>>, Malformed) }

SelectWordFiles ==
    { <<WordB, WordA>>,
      <<WordC, <<" ", "B">>, <<>>, WordA, <<"z">>>>,
      <<WordA, WordB, WordA>> }

SelectCorpora ==
    { NoFile,
      [exists |-> TRUE, lines |-> <<[first |-> WordA, fields |-> 5]>>],
      [exists |-> TRUE, lines |-> <<[first |-> WordB, fields |-> 5],
                                    [first |-> WordC, fields |-> 4],
                                    [first |-> WordA, fields |-> 7]>>] }

SelectArgs ==
    { [NoArgs EXCEPT !.id = <<"a">>, !.name = <<"N">>, !.category = c, !.wordfile = w,
                     !.maxlength = m, !.no_verify = v] :
        c \in {<<>>, <<"x">>}, w \in BOOLEAN, m \in {2, DEFAULT_MAXLENGTH}, v \in BOOLEAN }

InitSelect ==
    /\ pc = "ready"
    /\ sign_rows \in StringsUpTo(SelectRowSet, MaxRows)
    /\ args \in SelectArgs
    /\ IF args.wordfile THEN wordfile_lines \in SelectWordFiles ELSE wordfile_lines = <<>>
    /\ freq_file \in SelectCorpora
    /\ IF args.no_verify THEN remote = {}
                         ELSE remote \in {{VideoA, VideoA2, VideoB}, {VideoA}}
    /\ ai_service = NoPackage
    /\ LocalIdle /\ BracketIdle /\ ScriptIdle /\ OutIdle

Generate ==
    /\ pc = "ready"
    /\ Main(args, sign_rows, wordfile_lines, freq_file, remote, ai_service)
    /\ pc' = "done"
    /\ runs' = runs + 1
    /\ UNCHANGED <<bracketVars, scriptVars, inputVars>>

NextSelect == Generate

SpecSelect == InitSelect /\ [][NextSelect]_vars

\* The run went through to the written artifact.
Wrote == pc = "done" /\ exit_code # ParserError

\* The words of the written artifact, in order.
ArtifactWords ==
    LET ws == files[args.id \o JsSuffix][1].words IN [i \in 1..Len(ws) |-> ws[i].word]

\* s is a subsequence of t (the elements of s stand in t in the same order).
RECURSIVE IsSubseqFrom(_, _, _, _)
IsSubseqFrom(s, i, t, j) ==
    IF i > Len(s) THEN TRUE
    ELSE IF j > Len(t) THEN FALSE
    ELSE IF s[i] = t[j] THEN IsSubseqFrom(s, i + 1, t, j + 1)
    ELSE IsSubseqFrom(s, i, t, j + 1)

IsSubseq(s, t) == IsSubseqFrom(s, 1, t, 1)

\* The rank of a word: its place in the table counted from 0, the size of the
\* table for a word that is not in it.
ImplicitRank(F, w) == IF Present(F, w) THEN PlaceIn(F, w) - 1 ELSE Len(F)

\* The candidate source: the lines of the word file, or the keys of the lookup.
CandidateSource ==
    IF args.wordfile THEN InputWords(wordfile_lines) ELSE Keys(word_lookup)

\* C1 as claimed: when a word file was supplied the words of the artifact are in
\* input-file order (the lines of the file, restricted to the words that were
\* found and survived verification).
C1_WordFileOrderKept ==
    Wrote /\ args.wordfile => IsSubseq(ArtifactWords, InputWords(wordfile_lines))

\* C1 as amended: the words of the artifact are in ascending frequency-rank
\* order whether or not a word file was supplied; the order of the candidate
\* source (lookup order, or input-file order) is kept only among words of equal
\* rank.
C1_RankOrderKept ==
    Wrote =>
        LET F == Frequency(freq_file)
            W == ArtifactWords
        IN  /\ \A i, j \in 1..Len(W) :
                  i < j => ImplicitRank(F, W[i]) <= ImplicitRank(F, W[j])
            /\ \A r \in 0..Len(F) :
                  IsSubseq(Pick(W, {i \in 1..Len(W) : ImplicitRank(F, W[i]) = r}),
                           Pick(CandidateSource,
                                {i \in 1..Len(CandidateSource) :
                                    ImplicitRank(F, CandidateSource[i]) = r}))

\* A word file was supplied, and the artifact lists its words in another order:
\* the ranked word first, then the unranked ones in file order.
C1_Witness ==
    /\ Wrote /\ args.wordfile
    /\ InputWords(wordfile_lines) = <<WordC, WordB, WordA, <<"z">>>>
    /\ ArtifactWords = <<WordA, WordC, WordB>>

(***************************************************************************)
(* Specification SpecFiles: runs of the generator on one output directory  *)
(***************************************************************************)

MaxRuns == 2

StatsTxt == <<"s", "t", "a", "t", "s", ".", "t", "x", "t">>

\* The directory before the first run: the corpus file lies in it.
InitialDir == WriteFile(<<>>, StatsTxt, <<Block("text", <<>>, <<>>, <<>>, <<>>)>>)

PhrasesA ==
    Column(<< [phrase |-> <<"a", " ", "b">>, movie |-> <<"m", "/", "1">>],
              [phrase |-> <<"a", " ", " ", "b">>, movie |-> <<"m", "/", "2">>] >>)

PhrasesB == Column(<< [phrase |-> <<"b", " ", "a">>, movie |-> <<"m", "/", "3">>] >>)

\* The catalog of the runs: a and b in the category x, c in the category y.
FilesCatalog ==
    << RowOf(WordA, MoviePath(VideoA), <<"X">>, <<"x">>, <<>>, PhrasesA),
       RowOf(WordB, VideoB,            <<"X">>, <<"x">>, <<>>, PhrasesB),
       RowOf(WordC, MovieTwo,          <<"Y">>, <<"y">>, <<>>, Malformed) >>

FilesCorpus == [exists |-> TRUE, lines |-> <<[first |-> WordB, fields |-> 5]>>]

\* Command lines: three ids (one of them the name of the index, one the name of
\* a chunk of another), four category filters (one matching nothing), split or not;
\* one asks for the annotation service, which is not set up; one rebuilds the index
\* only; one names a catalog that does not exist.
FilesArgs ==
    { [NoArgs EXCEPT !.id = i, !.name = <<"N">>, !.category = c, !.split = k,
                     !.no_verify = TRUE, !.phrases = TRUE] :
        i \in {<<"a">>, <<"a", "1">>, <<"a", "l", "l">>},
        c \in {<<"x">>, <<"y">>, <<"x", ",", "y">>, <<"z">>},
        k \in {NoSplit, 1, 2} }
    \cup { [NoArgs EXCEPT !.id = <<"a">>, !.name = <<"N">>, !.category = <<"x">>,
                          !.no_verify = TRUE, !.phrases = TRUE, !.ai_bracket = TRUE],
           [NoArgs EXCEPT !.rebuild = TRUE],
           [NoArgs EXCEPT !.csv_exists = FALSE, !.id = <<"a">>, !.name = <<"N">>,
                          !.category = <<"x">>] }

InitFiles ==
    /\ pc = "ready"
    /\ files = InitialDir
    /\ exit_code = 0 /\ output = <<>> /\ runs = 0
    /\ InputIdle /\ LocalIdle /\ BracketIdle /\ ScriptIdle

\* One run of the generator.
RunMain(a) ==
    /\ runs < MaxRuns
    /\ Main(a, FilesCatalog, <<>>, FilesCorpus, {}, ai_service)
    /\ args' = a
    /\ sign_rows' = FilesCatalog
    /\ freq_file' = FilesCorpus
    /\ runs' = runs + 1
    /\ pc' = "done"
    /\ UNCHANGED <<bracketVars, scriptVars, wordfile_lines, remote, ai_service>>

RunGenerate == \E a \in FilesArgs : ~a.rebuild /\ RunMain(a)

RunRebuild == \E a \in FilesArgs : a.rebuild /\ RunMain(a)

NextFiles == RunGenerate \/ RunRebuild

SpecFiles == InitFiles /\ [][NextFiles]_vars

\* C8: a run that ends with a non-zero exit, in particular one that no word entry
\* survives, has written no wordlist artifact and has not regenerated the index:
\* the files are as they were before the run.
C8_FatalRunWritesNothing == [][exit_code' # 0 => files' = files]_vars

\* The artifact files of the directory: the .js files other than the index.
ArtifactFiles == {f \in DOMAIN files : EndsWith(f, JsSuffix) /\ f # AllJs}

\* The places of the separator comments in a text.
Separators(text) == {p \in 1..Len(text) : text[p].kind = "separator"}

\* The end of the part that the separator at p opens: the place before the next
\* separator, or the end of the text.
PartEnd(text, p) ==
    LET later == {q \in Separators(text) : q > p} IN
    IF later = {} THEN Len(text)
    ELSE (CHOOSE q \in later : \A r \in later : q <= r) - 1

\* C9: the index is the header followed by every artifact file of the directory
\* (never the index itself), each after a separator comment naming it, in
\* ascending filename order, whatever the order the files were written in; a
\* second rebuild changes nothing.
C9_IndexIsSortedConcat ==
    AllJs \in DOMAIN files =>
        LET index == files[AllJs] IN
        /\ index[1] = HeaderBlock
        /\ \A p \in 2..Len(index) : index[p] # HeaderBlock
        /\ {index[p].name : p \in Separators(index)} = ArtifactFiles
        /\ Cardinality(Separators(index)) = Cardinality(ArtifactFiles)
        /\ Len(index) > 1 => 2 \in Separators(index)
        /\ \A p, q \in Separators(index) :
              p < q => StrLess(index[p].name, index[q].name)
        /\ \A p \in Separators(index) :
              Slice(index, p + 1, PartEnd(index, p)) = files[index[p].name]
        /\ rebuild_all_js(files) = files

\* The index holds three artifacts, two of them chunks, after a run whose own
\* artifact was named like the index.
C9_Witness ==
    /\ AllJs \in DOMAIN files
    /\ Cardinality(ArtifactFiles) = 3
    /\ <<"a", "1">> \o JsSuffix \in ArtifactFiles
    /\ <<"a", "2">> \o JsSuffix \in ArtifactFiles
    /\ <<"a">> \o JsSuffix \in ArtifactFiles
    /\ runs = 2

(***************************************************************************)
(* Specification SpecPartition: one generation run with phrases, split     *)
(* into chunks or not, the candidates from the lookup or from a word file  *)
(***************************************************************************)

PhrasesC == Column(<< [phrase |-> <<"c">>, movie |-> <<"m", "/", "4">>] >>)

\* Catalog rows: the words a, b and c of one category, each with phrases.
PartitionRowSet ==
    { RowOf(WordA, MoviePath(VideoA), <<"X">>, <<"x">>, <<>>, PhrasesA),
      RowOf(WordB, VideoB,            <<"X">>, <<"x">>, <<>>, PhrasesB),
      RowOf(WordC, MovieTwo,          <<"X">>, <<"x">>, <<>>, PhrasesC) }

\* Word files: one names the word a on two lines that are not adjacent, one on
\* two adjacent lines, one names every word once.
PartitionWordFiles ==
    { <<WordA, WordB, WordA>>,
      <<WordA, WordA, WordB, WordC>>,
      <<WordC, WordB, WordA>> }

PartitionCorpora ==
    { NoFile, [exists |-> TRUE, lines |-> <<[first |-> WordA, fields |-> 5]>>] }

PartitionArgs ==
    { [NoArgs EXCEPT !.id = <<"a">>, !.name = <<"N">>, !.category = <<"x">>,
                     !.wordfile = w, !.no_verify = TRUE, !.split = k,
                     !.phrases = p, !.ai_bracket = ai] :
        w \in BOOLEAN, k \in {NoSplit, 1, 2}, p \in BOOLEAN, ai \in BOOLEAN }

InitPartition ==
    /\ pc = "ready"
    /\ sign_rows \in StringsUpTo(PartitionRowSet, MaxRows)
    /\ args \in PartitionArgs
    /\ IF args.wordfile THEN wordfile_lines \in PartitionWordFiles
                        ELSE wordfile_lines = <<>>
    /\ freq_file \in PartitionCorpora
    /\ remote = {}
    /\ IF args.ai_bracket THEN ai_service \in {NoPackage, "raises"} \cup AiAnswers
                          ELSE ai_service = NoPackage
    /\ LocalIdle /\ BracketIdle /\ ScriptIdle /\ OutIdle

RunPartition ==
    /\ pc = "ready"
    /\ Main(args, sign_rows, wordfile_lines, freq_file, remote, ai_service)
    /\ pc' = "done"
    /\ runs' = runs + 1
    /\ UNCHANGED <<bracketVars, scriptVars, inputVars>>

NextPartition == RunPartition

SpecPartition == InitPartition /\ [][NextPartition]_vars

\* The run wrote chunk artifacts.
WroteChunks == pc = "done" /\ exit_code = 0 /\ IsSplit(entries, args.split)

\* The artifact of the n-th chunk.
ChunkArtifact(n) == files[args.id \o Str(n) \o JsSuffix][1]

\* The chunk artifacts that hold a phrase entry.
ChunksHolding(pe) ==
    {n \in 1..Len(chunks) :
        \E i \in 1..Len(ChunkArtifact(n).phrases) : ChunkArtifact(n).phrases[i] = pe}

\* C12: when the output is split, every deduplicated phrase entry is written to
\* exactly one chunk artifact, the one whose word list holds its word, whatever
\* the candidate source, a word file naming a word twice included.
C12_PhrasesPartitioned ==
    WroteChunks =>
        \A k \in 1..Len(phrase_entries) :
            LET pe == phrase_entries[k] IN
            /\ Cardinality(ChunksHolding(pe)) = 1
            /\ \A n \in ChunksHolding(pe) :
                  /\ Count(ChunkArtifact(n).phrases, pe) = 1
                  /\ \E i \in 1..Len(ChunkArtifact(n).words) :
                        ChunkArtifact(n).words[i].word = pe.word

====
